---- MODULE Spec2Model ----
(***************************************************************************)
(* LanguageTranslatorV3 (src/language-translator/v3.ts): the client's      *)
(* construction, its seven operations, the caller's parameter objects and  *)
(* the transport (createRequest) that completes each call.                 *)
(*                                                                         *)
(* JavaScript values.  A scalar (string or boolean) is a TLA+ string; the  *)
(* booleans are written "true" and "false", a property that is absent or   *)
(* bound to undefined is Undef (extend and JSON treat the two alike).      *)
(* A property that holds an object holds a reference: TextRef is the       *)
(* caller's text array, HeadersRef the caller's headers object; their      *)
(* contents live in callerText and callerHeaders.  Values that travel      *)
(* through the completion channel (errors, bodies, responses) are records. *)
(***************************************************************************)
EXTENDS Integers, Sequences, FiniteSets, TLC

VARIABLES client, ctorOptions, _options, calls, callerParams, callerText, callerHeaders, mutations

vars == <<client, ctorOptions, _options, calls, callerParams, callerText, callerHeaders, mutations>>

(* ------------------------------ bounds -------------------------------- *)

\* longest text array a caller passes to translate
MaxTextLen == 2
\* how many times a caller changes its parameter objects while one call is in flight
MaxMutations == 1

\* the invocations of one run; they can be in flight at the same time
CallIds == {1, 2}

(* ------------------------------ values -------------------------------- *)

Undef == "undefined"
JsTrue == "true"
JsFalse == "false"
TextRef == "ref:text[]"
HeadersRef == "ref:headers{}"

JsNull == [null |-> "null"]
JsUndefined == [undefined |-> "undefined"]

\* the falsy scalars of the model: undefined, the empty string, false
Falsy == {Undef, "", JsFalse}

Truthy(v) == v \notin Falsy

URL == "https://gateway.watsonplatform.net/language-translator/api"

HeaderNames == {"Accept", "Content-Type", "User-Agent", "X-IBMCloud-SDK-Analytics",
                "X-Watson-Learning-Opt-Out"}

NoHeaders == [h \in HeaderNames |-> Undef]

QueryNames == {"version", "base_model_id", "name", "source", "target", "default"}

ParamNames == {"text", "model_id", "source", "target", "headers", "return_response",
               "base_model_id", "forced_glossary", "parallel_corpus", "name",
               "default_models"}

\* the object {}
EmptyObject == [f \in ParamNames |-> Undef]

(* ------------------------------ extend -------------------------------- *)

\* extend(target, src): every property of src that is not undefined is
\* written over target's; the (changed) target is the result.
extend(target, src) ==
  [k \in DOMAIN target |-> IF k \in DOMAIN src /\ src[k] # Undef THEN src[k] ELSE target[k]]

\* extend(true, {}, this._options, {headers: h}): a fresh object that has
\* the client's options, its headers merged key by key with h.
extendDefaultOptions(opts, h) ==
  [opts EXCEPT !.headers = extend(opts.headers, h)]

(* --------------------------- collaborators ---------------------------- *)

\* getSdkHeaders(serviceName, serviceVersion, operationId): the diagnostic
\* headers of one operation, in an object made for the call.
getSdkHeaders(serviceName, serviceVersion, operationId) ==
  [NoHeaders EXCEPT
     !["User-Agent"] = "watson-developer-cloud-nodejs",
     !["X-IBMCloud-SDK-Analytics"] = serviceName \o ";" \o serviceVersion \o ";" \o operationId]

\* A required value is missing when it is absent, undefined or empty; the
\* empty value of an array parameter is the empty array.
isMissing(v, text) ==
  \/ v \in {Undef, ""}
  \/ v = TextRef /\ text = <<>>

RECURSIVE missingOf(_, _, _)
missingOf(_params, requires, text) ==
  IF requires = <<>> THEN <<>>
  ELSE (IF isMissing(_params[Head(requires)], text) THEN <<Head(requires)>> ELSE <<>>)
       \o missingOf(_params, Tail(requires), text)

\* getMissingParams(params, requires): null, or an error naming the
\* required parameters that are missing.
getMissingParams(_params, requires, text) ==
  LET missing == missingOf(_params, requires, text)
  IN  IF missing = <<>> THEN JsNull
      ELSE [error |-> "Missing required parameters", missing |-> missing]

\* super(options): the base service's merged options.
BaseService(options) ==
  [version |-> options.version,
   url     |-> IF options.url = Undef THEN URL ELSE options.url,
   headers |-> options.headers,
   qs      |-> [q \in QueryNames |-> Undef]]

(* ------------------------------ client -------------------------------- *)

\* the constructor's argument before any construction
NoCtorOptions == [version |-> Undef, url |-> Undef, headers |-> NoHeaders]

\* this._options of a client that was not constructed
NoOptions ==
  [version |-> Undef, url |-> Undef, headers |-> NoHeaders,
   qs |-> [q \in QueryNames |-> Undef]]

\* a presence check that finds every version present
versionNeverUndefined(merged) == FALSE

\* typeof this._options.version === 'undefined'
versionUndefined(merged) == merged.version = Undef

\* the constructor without its assignment to qs.version
withoutVersionQuery(merged, options) == merged

\* this._options.qs.version = options.version
withVersionQuery(merged, options) ==
  [merged EXCEPT !.qs = [@ EXCEPT !["version"] = options.version]]

\* new LanguageTranslatorV3(options)
constructor(options) ==
  /\ client \in {"none", "threw"}
  /\ ctorOptions' = options
  /\ LET merged == BaseService(options)
     IN  IF versionUndefined(merged)
         THEN /\ client' = "threw"
              /\ _options' = NoOptions
         ELSE /\ client' = "ready"
              /\ _options' = withVersionQuery(merged, options)
  /\ UNCHANGED <<calls, callerParams, callerText, callerHeaders, mutations>>

(* ------------------------- request descriptors ------------------------ *)

\* _params.headers, read when the operation merges the headers
headersOf(_params, headers) ==
  IF _params.headers = HeadersRef THEN headers ELSE NoHeaders

\* { 'Accept': accept, 'Content-Type': contentType }
fixedHeaders(accept, contentType) ==
  [NoHeaders EXCEPT !["Accept"] = accept, !["Content-Type"] = contentType]

\* the merge with the caller's headers as the first layer
mergeHeadersCallerFirst(sdkHeaders, fixed, custom) ==
  extend(extend(custom, sdkHeaders), fixed)

\* extend(true, sdkHeaders, {fixed headers}, _params.headers)
mergeHeaders(sdkHeaders, fixed, custom) ==
  extend(extend(sdkHeaders, fixed), custom)

\* translate with null in the place of an optional field that was not given
translateParametersNullFields(_params, headers) ==
  LET orNull(v) == IF v = Undef THEN "null" ELSE v
  IN  [options |->
         [url |-> "/v3/translate", method |-> "POST",
          body |-> [text |-> _params.text, model_id |-> orNull(_params.model_id),
                    source |-> orNull(_params.source),
                    target |-> orNull(_params.target)]],
       defaultOptions |->
         extendDefaultOptions(_options,
           mergeHeaders(getSdkHeaders("language_translator", "v3", "translate"),
                        fixedHeaders("application/json", "application/json"),
                        headersOf(_params, headers)))]

translateParameters(_params, headers) ==
  [options |->
     [url |-> "/v3/translate", method |-> "POST",
      body |-> [text |-> _params.text, model_id |-> _params.model_id,
                source |-> _params.source, target |-> _params.target]],
   defaultOptions |->
     extendDefaultOptions(_options,
       mergeHeaders(getSdkHeaders("language_translator", "v3", "translate"),
                    fixedHeaders("application/json", "application/json"),
                    headersOf(_params, headers)))]

identifyParameters(_params, headers) ==
  [options |-> [url |-> "/v3/identify", method |-> "POST", body |-> _params.text],
   defaultOptions |->
     extendDefaultOptions(_options,
       mergeHeaders(getSdkHeaders("language_translator", "v3", "identify"),
                    fixedHeaders("application/json", "text/plain"),
                    headersOf(_params, headers)))]

listIdentifiableLanguagesParameters(_params, headers) ==
  [options |-> [url |-> "/v3/identifiable_languages", method |-> "GET"],
   defaultOptions |->
     extendDefaultOptions(_options,
       mergeHeaders(getSdkHeaders("language_translator", "v3", "listIdentifiableLanguages"),
                    fixedHeaders("application/json", Undef),
                    headersOf(_params, headers)))]

\* createModel with the model name in the form and not in the query
createModelParametersNameInForm(_params, headers) ==
  [options |->
     [url |-> "/v3/models", method |-> "POST",
      qs |-> [base_model_id |-> _params.base_model_id],
      formData |->
        [forced_glossary |-> [data |-> _params.forced_glossary,
                              contentType |-> "application/octet-stream"],
         parallel_corpus |-> [data |-> _params.parallel_corpus,
                              contentType |-> "application/octet-stream"],
         name |-> [data |-> _params.name, contentType |-> "text/plain"]]],
   defaultOptions |->
     extendDefaultOptions(_options,
       mergeHeaders(getSdkHeaders("language_translator", "v3", "createModel"),
                    fixedHeaders("application/json", "multipart/form-data"),
                    headersOf(_params, headers)))]

createModelParameters(_params, headers) ==
  [options |->
     [url |-> "/v3/models", method |-> "POST",
      qs |-> [base_model_id |-> _params.base_model_id, name |-> _params.name],
      formData |->
        [forced_glossary |-> [data |-> _params.forced_glossary,
                              contentType |-> "application/octet-stream"],
         parallel_corpus |-> [data |-> _params.parallel_corpus,
                              contentType |-> "application/octet-stream"]]],
   defaultOptions |->
     extendDefaultOptions(_options,
       mergeHeaders(getSdkHeaders("language_translator", "v3", "createModel"),
                    fixedHeaders("application/json", "multipart/form-data"),
                    headersOf(_params, headers)))]

\* deleteModel with the method of getModel
deleteModelParametersAsGet(_params, headers) ==
  [options |->
     [url |-> "/v3/models/{model_id}", method |-> "GET",
      path |-> [model_id |-> _params.model_id]],
   defaultOptions |->
     extendDefaultOptions(_options,
       mergeHeaders(getSdkHeaders("language_translator", "v3", "deleteModel"),
                    fixedHeaders("application/json", Undef),
                    headersOf(_params, headers)))]

deleteModelParameters(_params, headers) ==
  [options |->
     [url |-> "/v3/models/{model_id}", method |-> "DELETE",
      path |-> [model_id |-> _params.model_id]],
   defaultOptions |->
     extendDefaultOptions(_options,
       mergeHeaders(getSdkHeaders("language_translator", "v3", "deleteModel"),
                    fixedHeaders("application/json", Undef),
                    headersOf(_params, headers)))]

getModelParameters(_params, headers) ==
  [options |->
     [url |-> "/v3/models/{model_id}", method |-> "GET",
      path |-> [model_id |-> _params.model_id]],
   defaultOptions |->
     extendDefaultOptions(_options,
       mergeHeaders(getSdkHeaders("language_translator", "v3", "getModel"),
                    fixedHeaders("application/json", Undef),
                    headersOf(_params, headers)))]

\* listModels with the filter read as _params.default_models || undefined
listModelsParametersFalsyAbsent(_params, headers) ==
  [options |->
     [url |-> "/v3/models", method |-> "GET",
      qs |-> [source |-> _params.source, target |-> _params.target,
              default |-> IF Truthy(_params.default_models)
                          THEN _params.default_models ELSE Undef]],
   defaultOptions |->
     extendDefaultOptions(_options,
       mergeHeaders(getSdkHeaders("language_translator", "v3", "listModels"),
                    fixedHeaders("application/json", Undef),
                    headersOf(_params, headers)))]

listModelsParameters(_params, headers) ==
  [options |->
     [url |-> "/v3/models", method |-> "GET",
      qs |-> [source |-> _params.source, target |-> _params.target,
              default |-> _params.default_models]],
   defaultOptions |->
     extendDefaultOptions(_options,
       mergeHeaders(getSdkHeaders("language_translator", "v3", "listModels"),
                    fixedHeaders("application/json", Undef),
                    headersOf(_params, headers)))]

(* ------------------------------- calls -------------------------------- *)

NoParameters == [options |-> [url |-> Undef], defaultOptions |-> NoOptions]
NoOutcome == [err |-> JsUndefined, body |-> JsUndefined, res |-> JsUndefined]
NoDelivery == [channel |-> "none"]

\* an invocation that has not started
IdleCall ==
  [state |-> "idle", op |-> "none", style |-> "none", _params |-> EmptyObject,
   parameters |-> NoParameters, sent |-> 0, reported |-> NoOutcome,
   completions |-> 0, delivered |-> NoDelivery]

\* the handler with res and bod exchanged
promiseHandlerSwapped(_params, err, bod, res) ==
  IF err \notin {JsNull, JsUndefined}
  THEN [channel |-> "reject", value |-> err]
  ELSE IF Truthy(_params.return_response)
       THEN [channel |-> "resolve", value |-> bod]
       ELSE [channel |-> "resolve", value |-> res]

\* (err, bod, res) => err ? reject(err) : _params.return_response ? resolve(res) : resolve(bod)
promiseHandler(_params, err, bod, res) ==
  IF err \notin {JsNull, JsUndefined}
  THEN [channel |-> "reject", value |-> err]
  ELSE IF Truthy(_params.return_response)
       THEN [channel |-> "resolve", value |-> res]
       ELSE [channel |-> "resolve", value |-> bod]

\* a completion that reports every transport error as one generic error
_callbackGenericError(call, err, bod, res) ==
  LET e == IF err \in {JsNull, JsUndefined} \/ "missing" \in DOMAIN err
           THEN err ELSE [error |-> "Request failed"]
  IN  [call EXCEPT
         !.state = "done",
         !.completions = @ + 1,
         !.delivered = IF call.style = "promise"
                       THEN promiseHandler(call._params, e, bod, res)
                       ELSE [channel |-> "callback", err |-> e, body |-> bod, res |-> res]]

\* _callback(err, bod, res): the caller's callback, or the promise's handler
\* when the operation was invoked without one
_callback(call, err, bod, res) ==
  [call EXCEPT
     !.state = "done",
     !.completions = @ + 1,
     !.delivered = IF call.style = "promise"
                   THEN promiseHandler(call._params, err, bod, res)
                   ELSE [channel |-> "callback", err |-> err, body |-> bod, res |-> res]]

\* this.createRequest(parameters, _callback): the descriptor is the transport's
createRequest(call, parameters) ==
  [call EXCEPT !.state = "inflight", !.sent = @ + 1, !.parameters = parameters]

\* const _params = extend({}, params), or {} when params is the callback
snapshot(style, params) ==
  IF style = "callbackOnly" THEN EmptyObject ELSE extend(EmptyObject, params)

\* the headers merged with this._options.headers as the target:
\* extend(true, this._options.headers, sdkHeaders, ...)
thisOptionsHeadersShared(opts, defaultOptions) ==
  [opts EXCEPT !.headers = defaultOptions.headers]

\* the merge with this._options as its target: extend(true, this._options, ...)
thisOptionsMergedInto(opts, defaultOptions) == defaultOptions

\* this._options after extend(true, {}, this._options, ...): the target of the
\* merge is a new object, the client's options are only read
thisOptionsAfter(opts, defaultOptions) == opts

\* the operation with _callback(missingParams) not returned: the method goes
\* on to build the descriptor and to call createRequest
operationWithoutReturn(i, op, style, in, requiredParams, parameters) ==
  /\ client = "ready"
  /\ calls[i].state = "idle"
  /\ LET _params == snapshot(style, in.params)
         call == [IdleCall EXCEPT !.op = op, !.style = style, !._params = _params]
         missingParams == getMissingParams(_params, requiredParams, in.text)
     IN  /\ calls' = [calls EXCEPT ![i] =
                        IF missingParams # JsNull
                        THEN createRequest(
                               _callback(call, missingParams, JsUndefined, JsUndefined),
                               parameters)
                        ELSE createRequest(call, parameters)]
         /\ _options' = thisOptionsAfter(_options, parameters.defaultOptions)
  /\ callerParams' = [callerParams EXCEPT ![i] = in.params]
  /\ callerText' = [callerText EXCEPT ![i] = in.text]
  /\ callerHeaders' = [callerHeaders EXCEPT ![i] = in.headers]
  /\ mutations' = [mutations EXCEPT ![i] = 0]
  /\ UNCHANGED <<client, ctorOptions>>

\* One operation, from the snapshot of the parameters to the method's return.
\* in: the caller's params object with the contents of its text array and of
\* its headers object; style: "callback", "promise" (no callback), or
\* "callbackOnly" (the callback in the place of params); parameters: the
\* descriptor the operation builds from its snapshot when validation passes.
operation(i, op, style, in, requiredParams, parameters) ==
  /\ client = "ready"
  /\ calls[i].state = "idle"
  /\ LET _params == snapshot(style, in.params)
         call == [IdleCall EXCEPT !.op = op, !.style = style, !._params = _params]
         missingParams == getMissingParams(_params, requiredParams, in.text)
     IN  IF missingParams # JsNull
         THEN /\ calls' = [calls EXCEPT ![i] =
                             _callback(call, missingParams, JsUndefined, JsUndefined)]
              /\ UNCHANGED _options
         ELSE /\ calls' = [calls EXCEPT ![i] = createRequest(call, parameters)]
              /\ _options' = thisOptionsAfter(_options, parameters.defaultOptions)
  /\ callerParams' = [callerParams EXCEPT ![i] = in.params]
  /\ callerText' = [callerText EXCEPT ![i] = in.text]
  /\ callerHeaders' = [callerHeaders EXCEPT ![i] = in.headers]
  /\ mutations' = [mutations EXCEPT ![i] = 0]
  /\ UNCHANGED <<client, ctorOptions>>

\* translate with an empty list of required parameters
translateUnvalidated(i, style, in) ==
  /\ operation(i, "translate", style, in, <<>>,
               translateParameters(snapshot(style, in.params), in.headers))

translate(i, style, in) ==
  /\ operation(i, "translate", style, in, <<"text">>,
               translateParameters(snapshot(style, in.params), in.headers))

identify(i, style, in) ==
  /\ operation(i, "identify", style, in, <<"text">>,
               identifyParameters(snapshot(style, in.params), in.headers))

listIdentifiableLanguages(i, style, in) ==
  /\ operation(i, "listIdentifiableLanguages", style, in, <<>>,
               listIdentifiableLanguagesParameters(snapshot(style, in.params), in.headers))

createModel(i, style, in) ==
  /\ operation(i, "createModel", style, in, <<"base_model_id">>,
               createModelParameters(snapshot(style, in.params), in.headers))

deleteModel(i, style, in) ==
  /\ operation(i, "deleteModel", style, in, <<"model_id">>,
               deleteModelParameters(snapshot(style, in.params), in.headers))

getModel(i, style, in) ==
  /\ operation(i, "getModel", style, in, <<"model_id">>,
               getModelParameters(snapshot(style, in.params), in.headers))

listModels(i, style, in) ==
  /\ operation(i, "listModels", style, in, <<>>,
               listModelsParameters(snapshot(style, in.params), in.headers))

(* ----------------------------- transport ------------------------------ *)

TransportErrors == {[error |-> "ETIMEDOUT"], [error |-> "Unauthorized"]}

Body == [decoded |-> "payload"]
Response == [status |-> "200", headers |-> "response-headers", body |-> Body]

TransportOutcomes ==
  {[err |-> e, body |-> JsUndefined, res |-> JsUndefined] : e \in TransportErrors}
  \cup {[err |-> JsNull, body |-> Body, res |-> Response]}

\* The transport completes a request: it invokes the completion handler it
\* was given, once.  The caller's parameter objects leave the model with the call.
TransportResponds(i, outcome) ==
  /\ calls[i].state = "inflight"
  /\ calls' = [calls EXCEPT ![i] =
                 _callback([calls[i] EXCEPT !.reported = outcome],
                           outcome.err, outcome.body, outcome.res)]
  /\ callerParams' = [callerParams EXCEPT ![i] = EmptyObject]
  /\ callerText' = [callerText EXCEPT ![i] = <<>>]
  /\ callerHeaders' = [callerHeaders EXCEPT ![i] = NoHeaders]
  /\ mutations' = [mutations EXCEPT ![i] = 0]
  /\ UNCHANGED <<client, ctorOptions, _options>>

\* The descriptor as the transport reads it while the call is in flight: a
\* property that holds a reference is read through the reference.
descriptorRead(i) ==
  LET p == calls[i].parameters
  IN  IF calls[i].op = "translate" /\ p.options.body.text = TextRef
      THEN [p EXCEPT !.options.body.text = callerText[i]]
      ELSE p

(* ------------------------------ caller -------------------------------- *)

MutationKinds == {"return_response", "model_id", "text[]", "headers{}"}

\* The caller changes the params object it passed, or an object reachable
\* from it, after the method has returned and before the call completes.
CallerMutates(i, kind) ==
  /\ calls[i].state = "inflight"
  /\ mutations[i] < MaxMutations
  /\ mutations' = [mutations EXCEPT ![i] = @ + 1]
  /\ \/ /\ kind = "return_response"
        /\ callerParams' = [callerParams EXCEPT ![i].return_response =
                              IF Truthy(@) THEN Undef ELSE JsTrue]
        /\ UNCHANGED <<callerText, callerHeaders>>
     \/ /\ kind = "model_id"
        /\ callerParams' = [callerParams EXCEPT ![i].model_id = "late"]
        /\ UNCHANGED <<callerText, callerHeaders>>
     \/ /\ kind = "text[]"
        /\ callerParams[i].text = TextRef
        /\ callerText' = [callerText EXCEPT ![i][1] = "bye"]
        /\ UNCHANGED <<callerParams, callerHeaders>>
     \/ /\ kind = "headers{}"
        /\ callerParams[i].headers = HeadersRef
        /\ callerHeaders' = [callerHeaders EXCEPT ![i]["Accept"] = "late"]
        /\ UNCHANGED <<callerParams, callerText>>
  /\ UNCHANGED <<client, ctorOptions, _options, calls>>

(* ------------------------------ inputs -------------------------------- *)

VersionInputs == {Undef, "2018-05-01", "2019-04-02"}

DefaultHeaders ==
  [NoHeaders EXCEPT !["Accept"] = "text/html", !["Content-Type"] = "text/html",
                    !["User-Agent"] = "my-app",
                    !["X-Watson-Learning-Opt-Out"] = "true"]

OptionsInputs ==
  {[version |-> v, url |-> Undef, headers |-> h] :
     v \in VersionInputs, h \in {NoHeaders, DefaultHeaders}}

CallerHeaderInputs ==
  {[NoHeaders EXCEPT !["Accept"] = "text/csv",
                     !["X-IBMCloud-SDK-Analytics"] = "caller-analytics"],
   [NoHeaders EXCEPT !["Content-Type"] = "text/xml",
                     !["X-Watson-Learning-Opt-Out"] = "caller-opt"]}

ReturnResponseInputs == {Undef, JsTrue}

TextWords == {"hello"}
TextArrays == UNION {[1..n -> TextWords] : n \in 0..MaxTextLen}

Input(params, text) == [params |-> params, text |-> text, headers |-> NoHeaders]

EmptyInput == Input(EmptyObject, <<>>)

\* in, with the caller's custom headers and return_response
withCommon(in, h, r) ==
  [in EXCEPT !.params = [@ EXCEPT !.headers = IF h = NoHeaders THEN Undef ELSE HeadersRef,
                                  !.return_response = r],
             !.headers = h]

CommonVariants(in) ==
  {withCommon(in, h, r) : h \in {NoHeaders} \cup CallerHeaderInputs,
                          r \in ReturnResponseInputs}

TranslateOptionals ==
  {[model_id |-> Undef, source |-> Undef, target |-> Undef],
   [model_id |-> Undef, source |-> "en", target |-> "es"],
   [model_id |-> "en-es", source |-> Undef, target |-> Undef],
   [model_id |-> "en-es", source |-> "en", target |-> "es"]}

translateInput(hasText, text, o) ==
  Input([EmptyObject EXCEPT !.text = IF hasText THEN TextRef ELSE Undef,
                            !.model_id = o.model_id, !.source = o.source,
                            !.target = o.target], text)

\* translate({text: ["hello"], source: "en", target: "es"})
TranslateScenario ==
  translateInput(TRUE, <<"hello">>, [model_id |-> Undef, source |-> "en", target |-> "es"])

TranslateInputs ==
  {translateInput(FALSE, <<>>, o) : o \in TranslateOptionals}
  \cup {translateInput(TRUE, t, o) : t \in TextArrays, o \in TranslateOptionals}
  \cup CommonVariants(TranslateScenario)

identifyInput(text) == Input([EmptyObject EXCEPT !.text = text], <<>>)

IdentifyInputs ==
  {identifyInput(t) : t \in {Undef, "", "hello"}}
  \cup CommonVariants(identifyInput("hello"))

ListIdentifiableLanguagesInputs ==
  CommonVariants(EmptyInput)
  \cup {Input([EmptyObject EXCEPT !.return_response = JsFalse], <<>>)}

createModelInput(base, name, glossary, corpus) ==
  Input([EmptyObject EXCEPT !.base_model_id = base, !.name = name,
                            !.forced_glossary = glossary,
                            !.parallel_corpus = corpus], <<>>)

CreateModelInputs ==
  {createModelInput(b, n, g, c) :
     b \in {Undef, "", "en-es"}, n \in {Undef, "custom"},
     g \in {Undef, "glossary.tmx"}, c \in {Undef, "corpus.tmx"}}
  \cup CommonVariants(createModelInput("en-es", Undef, "glossary.tmx", Undef))

modelIdInput(id) == Input([EmptyObject EXCEPT !.model_id = id], <<>>)

ModelIdInputs ==
  {modelIdInput(id) : id \in {Undef, "", "abc123"}}
  \cup CommonVariants(modelIdInput("abc123"))

listModelsInput(source, target, default) ==
  Input([EmptyObject EXCEPT !.source = source, !.target = target,
                            !.default_models = default], <<>>)

ListModelsInputs ==
  {listModelsInput(st[1], st[2], d) :
     st \in {<<Undef, Undef>>, <<"en", Undef>>, <<"en", "es">>},
     d \in {Undef, JsTrue, JsFalse}}
  \cup CommonVariants(EmptyInput)

\* the inputs of one operation with their one canonical member
AllInputs ==
  [translate |-> TranslateInputs, identify |-> IdentifyInputs,
   listIdentifiableLanguages |-> ListIdentifiableLanguagesInputs,
   createModel |-> CreateModelInputs, deleteModel |-> ModelIdInputs,
   getModel |-> ModelIdInputs, listModels |-> ListModelsInputs]

CanonicalInputs ==
  [translate |-> {TranslateScenario, translateInput(FALSE, <<>>, [model_id |-> Undef, source |-> Undef, target |-> Undef])},
   identify |-> {identifyInput("hello")},
   listIdentifiableLanguages |-> {EmptyInput},
   createModel |-> {createModelInput("en-es", "custom", Undef, Undef)},
   deleteModel |-> {modelIdInput("abc123")},
   getModel |-> {modelIdInput("abc123")},
   listModels |-> {EmptyInput}]

\* Call 1 draws from every input of the operation in both styles; the calls
\* that run beside it draw from the canonical inputs.
FullInputCalls == {1}

InputsOf(i, op) == IF i \in FullInputCalls THEN AllInputs[op] ELSE CanonicalInputs[op]

Styles == {"callback", "promise"}

(* --------------------------- specification ---------------------------- *)

Init ==
  /\ client = "none"
  /\ ctorOptions = NoCtorOptions
  /\ _options = NoOptions
  /\ calls = [i \in CallIds |-> IdleCall]
  /\ callerParams = [i \in CallIds |-> EmptyObject]
  /\ callerText = [i \in CallIds |-> <<>>]
  /\ callerHeaders = [i \in CallIds |-> NoHeaders]
  /\ mutations = [i \in CallIds |-> 0]

Next ==
  \/ \E options \in OptionsInputs : constructor(options)
  \/ \E i \in CallIds : \E style \in Styles, in \in InputsOf(i, "translate") :
       translate(i, style, in)
  \/ \E i \in CallIds : \E style \in Styles, in \in InputsOf(i, "identify") :
       identify(i, style, in)
  \/ \E i \in CallIds : \E style \in Styles, in \in InputsOf(i, "listIdentifiableLanguages") :
       listIdentifiableLanguages(i, style, in)
  \/ \E i \in CallIds : listIdentifiableLanguages(i, "callbackOnly", EmptyInput)
  \/ \E i \in CallIds : \E style \in Styles, in \in InputsOf(i, "createModel") :
       createModel(i, style, in)
  \/ \E i \in CallIds : \E style \in Styles, in \in InputsOf(i, "deleteModel") :
       deleteModel(i, style, in)
  \/ \E i \in CallIds : \E style \in Styles, in \in InputsOf(i, "getModel") :
       getModel(i, style, in)
  \/ \E i \in CallIds : \E style \in Styles, in \in InputsOf(i, "listModels") :
       listModels(i, style, in)
  \/ \E i \in CallIds : listModels(i, "callbackOnly", EmptyInput)
  \/ \E i \in CallIds, outcome \in TransportOutcomes : TransportResponds(i, outcome)
  \/ \E i \in CallIds, kind \in MutationKinds : CallerMutates(i, kind)

Spec == Init /\ [][Next]_vars

\* Three invocations on one client: two identify calls drawn from the same
\* inputs, and between them a call of any operation, with and without custom
\* headers of its own.  The caller leaves the parameters of the two identify
\* calls as it passed them, and may change those of the call between them.
RepeatCallIds == {1, 2, 3}
RepeatedCalls == {1, 3}
OtherCalls == {2}

RepeatedHeaders ==
  [NoHeaders EXCEPT !["Accept"] = "text/csv",
                    !["X-IBMCloud-SDK-Analytics"] = "caller-analytics"]

OtherHeaders ==
  [NoHeaders EXCEPT !["Content-Type"] = "text/xml",
                    !["X-Watson-Learning-Opt-Out"] = "caller-opt"]

RepeatedInputs ==
  {identifyInput("hello"), withCommon(identifyInput("hello"), RepeatedHeaders, Undef)}

OtherInputs(op) ==
  CanonicalInputs[op] \cup {withCommon(in, OtherHeaders, Undef) : in \in CanonicalInputs[op]}

InitRepeat ==
  /\ client = "none"
  /\ ctorOptions = NoCtorOptions
  /\ _options = NoOptions
  /\ calls = [i \in RepeatCallIds |-> IdleCall]
  /\ callerParams = [i \in RepeatCallIds |-> EmptyObject]
  /\ callerText = [i \in RepeatCallIds |-> <<>>]
  /\ callerHeaders = [i \in RepeatCallIds |-> NoHeaders]
  /\ mutations = [i \in RepeatCallIds |-> 0]

NextRepeat ==
  \/ \E options \in OptionsInputs : constructor(options)
  \/ \E i \in RepeatedCalls, style \in Styles, in \in RepeatedInputs :
       identify(i, style, in)
  \/ \E i \in OtherCalls, style \in Styles, in \in OtherInputs("translate") :
       translate(i, style, in)
  \/ \E i \in OtherCalls, style \in Styles, in \in OtherInputs("identify") :
       identify(i, style, in)
  \/ \E i \in OtherCalls, style \in Styles, in \in OtherInputs("listIdentifiableLanguages") :
       listIdentifiableLanguages(i, style, in)
  \/ \E i \in OtherCalls : listIdentifiableLanguages(i, "callbackOnly", EmptyInput)
  \/ \E i \in OtherCalls, style \in Styles, in \in OtherInputs("createModel") :
       createModel(i, style, in)
  \/ \E i \in OtherCalls, style \in Styles, in \in OtherInputs("deleteModel") :
       deleteModel(i, style, in)
  \/ \E i \in OtherCalls, style \in Styles, in \in OtherInputs("getModel") :
       getModel(i, style, in)
  \/ \E i \in OtherCalls, style \in Styles, in \in OtherInputs("listModels") :
       listModels(i, style, in)
  \/ \E i \in OtherCalls : listModels(i, "callbackOnly", EmptyInput)
  \/ \E i \in RepeatCallIds, outcome \in TransportOutcomes : TransportResponds(i, outcome)
  \/ \E i \in OtherCalls, kind \in MutationKinds : CallerMutates(i, kind)

SpecRepeat == InitRepeat /\ [][NextRepeat]_vars

\* The transport completes every request it was handed: with a response, or
\* with an error such as a timeout.
TransportCompletes(i) == \E outcome \in TransportOutcomes : TransportResponds(i, outcome)

\* Two invocations, each of any operation in either style, with its canonical
\* input or with its required parameter absent or empty.
InvalidInputs ==
  [translate |-> {translateInput(TRUE, <<>>, [model_id |-> Undef, source |-> "en", target |-> "es"])},
   identify |-> {identifyInput(Undef)},
   listIdentifiableLanguages |-> {},
   createModel |-> {createModelInput(Undef, "custom", Undef, Undef)},
   deleteModel |-> {modelIdInput("")},
   getModel |-> {modelIdInput(Undef)},
   listModels |-> {}]

FairInputs(op) == CanonicalInputs[op] \cup InvalidInputs[op]

NextFair ==
  \/ \E options \in OptionsInputs : constructor(options)
  \/ \E i \in CallIds, style \in Styles, in \in FairInputs("translate") :
       translate(i, style, in)
  \/ \E i \in CallIds, style \in Styles, in \in FairInputs("identify") :
       identify(i, style, in)
  \/ \E i \in CallIds, style \in Styles, in \in FairInputs("listIdentifiableLanguages") :
       listIdentifiableLanguages(i, style, in)
  \/ \E i \in CallIds : listIdentifiableLanguages(i, "callbackOnly", EmptyInput)
  \/ \E i \in CallIds, style \in Styles, in \in FairInputs("createModel") :
       createModel(i, style, in)
  \/ \E i \in CallIds, style \in Styles, in \in FairInputs("deleteModel") :
       deleteModel(i, style, in)
  \/ \E i \in CallIds, style \in Styles, in \in FairInputs("getModel") :
       getModel(i, style, in)
  \/ \E i \in CallIds, style \in Styles, in \in FairInputs("listModels") :
       listModels(i, style, in)
  \/ \E i \in CallIds : listModels(i, "callbackOnly", EmptyInput)
  \/ \E i \in CallIds, outcome \in TransportOutcomes : TransportResponds(i, outcome)
  \/ \E i \in CallIds, kind \in MutationKinds : CallerMutates(i, kind)

SpecFair ==
  /\ Init /\ [][NextFair]_vars
  /\ \A i \in CallIds : WF_vars(TransportCompletes(i))

(* ------------------------------ claims -------------------------------- *)

\* the caller's objects of call i are as they were passed to the operation
AsPassed(i) ==
  /\ calls[i].state # "idle"
  /\ calls[i].state = "done" => calls[i].sent = 0
  /\ mutations[i] = 0

\* the descriptor of call i has been handed to the transport
Handed(i) == calls[i].sent > 0

RequiredParameter ==
  [translate |-> "text", identify |-> "text", createModel |-> "base_model_id",
   deleteModel |-> "model_id", getModel |-> "model_id"]

\* the required parameter of call i was passed absent or empty
RequiredAbsentOrEmpty(i) ==
  /\ calls[i].op \in DOMAIN RequiredParameter
  /\ LET v == callerParams[i][RequiredParameter[calls[i].op]]
     IN  \/ v \in {Undef, ""}
         \/ v = TextRef /\ callerText[i] = <<>>

ValidationError(i) ==
  [error |-> "Missing required parameters",
   missing |-> <<RequiredParameter[calls[i].op]>>]

\* C1: an operation invoked with its required parameter absent or empty
\* completes with a validation error, as the callback's first argument or as
\* the promise's rejection, and createRequest is not called for it.
C1_ValidationBeforeTransport ==
  \A i \in CallIds :
    (AsPassed(i) /\ RequiredAbsentOrEmpty(i)) =>
      /\ calls[i].state = "done"
      /\ calls[i].sent = 0
      /\ calls[i].parameters = NoParameters
      /\ calls[i].style = "callback" =>
           /\ calls[i].delivered.channel = "callback"
           /\ calls[i].delivered.err = ValidationError(i)
      /\ calls[i].style = "promise" =>
           calls[i].delivered = [channel |-> "reject", value |-> ValidationError(i)]

\* translate without a callback was given an empty text array: rejected, nothing sent
C1_Witness ==
  \E i \in CallIds :
    /\ calls[i].op = "translate" /\ calls[i].style = "promise"
    /\ callerParams[i].text = TextRef /\ callerText[i] = <<>>
    /\ calls[i].state = "done" /\ calls[i].sent = 0
    /\ calls[i].delivered.channel = "reject"

\* C2: without a completion handler the promise rejects with the error when
\* the outcome is an error; otherwise it resolves with the full response
\* when return_response was set and with the decoded body when it was not.
C2_PromiseSettlement ==
  \A i \in CallIds :
    (calls[i].state = "done" /\ calls[i].style = "promise") =>
      IF calls[i].sent = 0
      THEN calls[i].delivered = [channel |-> "reject", value |-> ValidationError(i)]
      ELSE IF calls[i].reported.err \in TransportErrors
      THEN calls[i].delivered = [channel |-> "reject", value |-> calls[i].reported.err]
      ELSE IF calls[i]._params.return_response = JsTrue
      THEN calls[i].delivered = [channel |-> "resolve", value |-> Response]
      ELSE calls[i].delivered = [channel |-> "resolve", value |-> Body]

\* a promise resolved with the full response because return_response was set
C2_Witness ==
  \E i \in CallIds :
    /\ calls[i].state = "done" /\ calls[i].style = "promise"
    /\ calls[i]._params.return_response = JsTrue
    /\ calls[i].reported.err = JsNull
    /\ calls[i].delivered = [channel |-> "resolve", value |-> Response]

\* the Accept and Content-Type an operation fixes
FixedHeadersOf ==
  [translate |-> [Accept |-> "application/json", ContentType |-> "application/json"],
   identify |-> [Accept |-> "application/json", ContentType |-> "text/plain"],
   listIdentifiableLanguages |-> [Accept |-> "application/json", ContentType |-> Undef],
   createModel |-> [Accept |-> "application/json", ContentType |-> "multipart/form-data"],
   deleteModel |-> [Accept |-> "application/json", ContentType |-> Undef],
   getModel |-> [Accept |-> "application/json", ContentType |-> Undef],
   listModels |-> [Accept |-> "application/json", ContentType |-> Undef]]

\* the first of the layers, from the highest precedence down, that has the header
FirstDefined(layers) ==
  IF \A n \in 1..Len(layers) : layers[n] = Undef THEN Undef
  ELSE layers[CHOOSE n \in 1..Len(layers) :
                /\ layers[n] # Undef
                /\ \A m \in 1..(n - 1) : layers[m] = Undef]

ExpectedHeader(i, k) ==
  FirstDefined(<<
    IF callerParams[i].headers = HeadersRef THEN callerHeaders[i][k] ELSE Undef,
    IF k = "Content-Type" THEN FixedHeadersOf[calls[i].op].ContentType ELSE Undef,
    IF k = "Accept" THEN FixedHeadersOf[calls[i].op].Accept ELSE Undef,
    getSdkHeaders("language_translator", "v3", calls[i].op)[k],
    _options.headers[k] >>)

\* C3: the descriptor's headers are the client's default headers, overridden
\* key by key by the diagnostic headers, then Accept, then Content-Type, then
\* the caller's headers; a diagnostic header no later layer names is present.
C3_HeaderPrecedence ==
  \A i \in CallIds :
    (AsPassed(i) /\ Handed(i)) =>
      \A k \in HeaderNames :
        calls[i].parameters.defaultOptions.headers[k] = ExpectedHeader(i, k)

\* the caller's header replaced the client's default of the same name, and
\* the diagnostic User-Agent replaced the client's default User-Agent
C3_Witness ==
  \E i \in CallIds :
    /\ AsPassed(i) /\ Handed(i)
    /\ _options.headers["X-Watson-Learning-Opt-Out"] = "true"
    /\ _options.headers["User-Agent"] = "my-app"
    /\ callerParams[i].headers = HeadersRef
    /\ callerHeaders[i]["X-Watson-Learning-Opt-Out"] = "caller-opt"
    /\ calls[i].parameters.defaultOptions.headers["X-Watson-Learning-Opt-Out"] = "caller-opt"
    /\ calls[i].parameters.defaultOptions.headers["User-Agent"] = "watson-developer-cloud-nodejs"
    /\ calls[i].parameters.defaultOptions.headers["X-IBMCloud-SDK-Analytics"] # Undef

\* C4: constructing without a version throws from the constructor, and no
\* operation runs on a client that was not constructed; constructing with a
\* version does not throw.
C4_VersionRequired ==
  /\ client # "none" => (client = "threw" <=> ctorOptions.version = Undef)
  /\ client # "none" => (client = "ready" <=> ctorOptions.version # Undef)
  /\ client # "ready" => \A i \in CallIds : calls[i].state = "idle"

\* the constructor was given no version and threw
C4_Witness ==
  /\ client = "threw"
  /\ ctorOptions.version = Undef
  /\ ctorOptions.headers = DefaultHeaders

\* C5: every descriptor handed to the transport carries the version given
\* at construction as its version query parameter, and no operation's own
\* query parameters name version.
C5_VersionInEveryRequest ==
  \A i \in CallIds :
    Handed(i) =>
      /\ ctorOptions.version # Undef
      /\ calls[i].parameters.defaultOptions.qs["version"] = ctorOptions.version
      /\ "qs" \in DOMAIN calls[i].parameters.options =>
           "version" \notin DOMAIN calls[i].parameters.options.qs

\* createModel and listModels, with query parameters of their own, are in
\* flight together and both carry the version
C5_Witness ==
  \E i, j \in CallIds :
    /\ calls[i].op = "createModel" /\ calls[j].op = "listModels"
    /\ calls[i].state = "inflight" /\ calls[j].state = "inflight"
    /\ calls[i].parameters.options.qs.base_model_id = "en-es"
    /\ calls[i].parameters.defaultOptions.qs["version"] = "2019-04-02"
    /\ calls[j].parameters.defaultOptions.qs["version"] = "2019-04-02"

\* C6: an error the transport reports reaches the caller unchanged, as the
\* callback's first argument or as the promise's rejection value.
C6_TransportErrorPassedThrough ==
  \A i \in CallIds :
    (calls[i].state = "done" /\ calls[i].reported.err \in TransportErrors) =>
      /\ calls[i].completions = 1
      /\ IF calls[i].style = "promise"
         THEN calls[i].delivered = [channel |-> "reject", value |-> calls[i].reported.err]
         ELSE /\ calls[i].delivered.channel = "callback"
              /\ calls[i].delivered.err = calls[i].reported.err

\* one transport error reached a callback and another rejected a promise
C6_Witness ==
  \E i, j \in CallIds :
    /\ calls[i].state = "done" /\ calls[i].style = "callback"
    /\ calls[i].reported.err = [error |-> "ETIMEDOUT"]
    /\ calls[i].delivered.err = [error |-> "ETIMEDOUT"]
    /\ calls[j].state = "done" /\ calls[j].style = "promise"
    /\ calls[j].reported.err = [error |-> "Unauthorized"]
    /\ calls[j].delivered = [channel |-> "reject", value |-> [error |-> "Unauthorized"]]

\* C8: once the client is constructed no step changes its configuration.
C8_ConfigurationReadOnly ==
  [][client = "ready" => (client' = "ready" /\ _options' = _options)]_vars

\* two calls have run, one failed validation and one was sent with merged
\* headers that differ from the client's, and the configuration is the
\* constructor's
C8_Witness ==
  \E i, j \in CallIds :
    /\ client = "ready"
    /\ calls[i].state = "done" /\ calls[i].sent = 0
    /\ calls[j].state = "done" /\ calls[j].sent = 1
    /\ calls[j].parameters.defaultOptions.headers # _options.headers
    /\ _options.headers = ctorOptions.headers
    /\ _options.qs["version"] = ctorOptions.version
    /\ _options.url = URL

\* C7: a change the caller makes to the params object, or to an object
\* reachable from it, after the method has returned changes neither the
\* descriptor the transport reads for the call in flight nor the value
\* return_response had for it.
C7_CallerMutationIsolated ==
  [][\A i \in CallIds :
       (calls[i].state = "inflight" /\ calls'[i].state = "inflight") =>
         /\ descriptorRead(i)' = descriptorRead(i)
         /\ calls'[i]._params.return_response = calls[i]._params.return_response]_vars

\* the members of the JSON text of a body: JSON leaves out a property whose
\* value is undefined and writes null for one whose value is null
jsonMembers(body) == {k \in DOMAIN body : body[k] # Undef}

TranslateBodyFields == {"text", "model_id", "source", "target"}

\* C9: translate posts to /v3/translate a JSON body that has exactly the
\* declared body fields the caller supplied, each with the caller's value;
\* a field that was not supplied is left out and is not null.
C9_TranslateBody ==
  \A i \in CallIds :
    (AsPassed(i) /\ Handed(i) /\ calls[i].op = "translate") =>
      LET o == calls[i].parameters.options
      IN  /\ o.url = "/v3/translate"
          /\ o.method = "POST"
          /\ DOMAIN o = {"url", "method", "body"}
          /\ jsonMembers(o.body) =
               {f \in TranslateBodyFields : callerParams[i][f] # Undef}
          /\ \A f \in jsonMembers(o.body) :
               o.body[f] = callerParams[i][f] /\ o.body[f] # "null"

\* translate({text: ["hello"], source: "en", target: "es"}): the body has
\* text, source and target, and no model_id
C9_Witness ==
  \E i \in CallIds :
    /\ AsPassed(i) /\ Handed(i) /\ calls[i].op = "translate"
    /\ callerParams[i] = TranslateScenario.params
    /\ callerText[i] = <<"hello">>
    /\ jsonMembers(calls[i].parameters.options.body) = {"text", "source", "target"}
    /\ descriptorRead(i).options.body.text = <<"hello">>
    /\ calls[i].parameters.options.body.source = "en"
    /\ calls[i].parameters.options.body.target = "es"

FileFields == {"forced_glossary", "parallel_corpus"}

\* base_model_id and name travel in the query string and not in the form
CreateModelQueryNotForm(i) ==
  LET o == calls[i].parameters.options
  IN  /\ o.url = "/v3/models"
      /\ o.method = "POST"
      /\ o.qs = [base_model_id |-> callerParams[i].base_model_id,
                 name |-> callerParams[i].name]
      /\ DOMAIN o.formData \cap {"base_model_id", "name"} = {}

\* C10 as claimed: the form has a file field, wrapped with content type
\* application/octet-stream, exactly for the files the caller supplied; a
\* field whose value is undefined is not in the form.
C10_FormOmitsUndefinedFiles ==
  \A i \in CallIds :
    (AsPassed(i) /\ Handed(i) /\ calls[i].op = "createModel") =>
      LET form == calls[i].parameters.options.formData
      IN  /\ DOMAIN form = {f \in FileFields : callerParams[i][f] # Undef}
          /\ \A f \in DOMAIN form :
               form[f] = [data |-> callerParams[i][f],
                          contentType |-> "application/octet-stream"]
          /\ CreateModelQueryNotForm(i)

\* C10: the form createModel hands to the transport has both file fields,
\* each wrapped with content type application/octet-stream around the
\* caller's value, which is undefined for a file that was not supplied;
\* base_model_id and name are in the query string and not in the form.
C10_FormWrapsBothFiles ==
  \A i \in CallIds :
    (AsPassed(i) /\ Handed(i) /\ calls[i].op = "createModel") =>
      LET form == calls[i].parameters.options.formData
      IN  /\ DOMAIN form = FileFields
          /\ \A f \in FileFields :
               form[f] = [data |-> callerParams[i][f],
                          contentType |-> "application/octet-stream"]
          /\ CreateModelQueryNotForm(i)

\* createModel with a glossary and without a corpus: the corpus field is
\* in the form, its data undefined
C10_Witness ==
  \E i \in CallIds :
    /\ AsPassed(i) /\ Handed(i) /\ calls[i].op = "createModel"
    /\ callerParams[i].forced_glossary = "glossary.tmx"
    /\ callerParams[i].parallel_corpus = Undef
    /\ callerParams[i].name = "custom"
    /\ calls[i].parameters.options.formData.forced_glossary.data = "glossary.tmx"
    /\ calls[i].parameters.options.formData.parallel_corpus =
         [data |-> Undef, contentType |-> "application/octet-stream"]
    /\ calls[i].parameters.options.qs.name = "custom"

\* C11: listModels hands the transport the default filter as the caller
\* passed it: no value (undefined) when default_models was not supplied, false
\* when it was supplied as false, true when it was supplied as true; the
\* source and target filters are handed over the same way.
C11_DefaultFilterKept ==
  \A i \in CallIds :
    (AsPassed(i) /\ Handed(i) /\ calls[i].op = "listModels") =>
      LET qs == calls[i].parameters.options.qs
      IN  /\ DOMAIN qs = {"source", "target", "default"}
          /\ qs.default = callerParams[i].default_models
          /\ callerParams[i].default_models = Undef => qs.default = Undef
          /\ callerParams[i].default_models = JsFalse =>
               qs.default = JsFalse /\ qs.default # Undef
          /\ callerParams[i].default_models = JsTrue => qs.default = JsTrue
          /\ qs.source = callerParams[i].source
          /\ qs.target = callerParams[i].target

\* listModels({default_models: false}) is in flight with 'default' = false
C11_Witness ==
  \E i \in CallIds :
    /\ AsPassed(i) /\ Handed(i) /\ calls[i].op = "listModels"
    /\ callerParams[i].default_models = JsFalse
    /\ calls[i].parameters.options.qs.default = JsFalse

\* the method and the path template of every operation
OperationTable ==
  [translate |-> [method |-> "POST", url |-> "/v3/translate"],
   identify |-> [method |-> "POST", url |-> "/v3/identify"],
   listIdentifiableLanguages |-> [method |-> "GET", url |-> "/v3/identifiable_languages"],
   createModel |-> [method |-> "POST", url |-> "/v3/models"],
   deleteModel |-> [method |-> "DELETE", url |-> "/v3/models/{model_id}"],
   getModel |-> [method |-> "GET", url |-> "/v3/models/{model_id}"],
   listModels |-> [method |-> "GET", url |-> "/v3/models"]]

\* the path of a descriptor with its placeholder replaced by the value bound to it
boundPath(options) ==
  IF options.url = "/v3/models/{model_id}"
  THEN "/v3/models/" \o options.path.model_id
  ELSE options.url

\* C12: the descriptor an operation hands to the transport has the method and
\* the path of the operation table; the descriptor of deleteModel and of
\* getModel binds the placeholder model_id, and nothing else, to the caller's
\* model_id and has neither a body nor a form.
C12_MethodAndPath ==
  \A i \in CallIds :
    Handed(i) =>
      LET options == calls[i].parameters.options
      IN  /\ options.method = OperationTable[calls[i].op].method
          /\ options.url = OperationTable[calls[i].op].url
          /\ "path" \in DOMAIN options <=> calls[i].op \in {"deleteModel", "getModel"}
          /\ calls[i].op \in {"deleteModel", "getModel"} =>
               /\ DOMAIN options = {"url", "method", "path"}
               /\ DOMAIN options.path = {"model_id"}
               /\ options.path.model_id = calls[i]._params.model_id
               /\ AsPassed(i) =>
                    /\ options.path.model_id = callerParams[i].model_id
                    /\ boundPath(options) = "/v3/models/" \o callerParams[i].model_id

\* deleteModel({model_id: "abc123"}) is in flight: DELETE /v3/models/abc123, no body
C12_Witness ==
  \E i \in CallIds :
    /\ AsPassed(i) /\ Handed(i) /\ calls[i].op = "deleteModel"
    /\ callerParams[i].model_id = "abc123"
    /\ calls[i].parameters.options.method = "DELETE"
    /\ boundPath(calls[i].parameters.options) = "/v3/models/abc123"
    /\ "body" \notin DOMAIN calls[i].parameters.options

\* the caller passed the same parameters, with the same contents, to i and to j
SameParameters(i, j) ==
  /\ callerParams[i] = callerParams[j]
  /\ callerText[i] = callerText[j]
  /\ callerHeaders[i] = callerHeaders[j]

\* C13: two identify calls on one client that were passed identical
\* parameters have handed identical descriptors to the transport, whichever
\* calls were invoked, are in flight or have completed beside them.
C13_IdenticalCallsIdenticalDescriptors ==
  \A i, j \in DOMAIN calls :
    ( /\ calls[i].op = "identify" /\ calls[j].op = "identify"
      /\ Handed(i) /\ Handed(j) /\ AsPassed(i) /\ AsPassed(j)
      /\ SameParameters(i, j) ) =>
      /\ calls[i].parameters = calls[j].parameters
      /\ descriptorRead(i) = descriptorRead(j)

\* two identify calls with the same text and the same custom headers are in
\* flight with equal descriptors, and a translate call with custom headers of
\* its own has been handed to the transport beside them
C13_Witness ==
  \E i, j, k \in DOMAIN calls :
    /\ i # j
    /\ calls[i].op = "identify" /\ calls[j].op = "identify"
    /\ Handed(i) /\ Handed(j) /\ AsPassed(i) /\ AsPassed(j)
    /\ SameParameters(i, j)
    /\ callerHeaders[i] = RepeatedHeaders
    /\ calls[k].op = "translate" /\ Handed(k)
    /\ calls[k].parameters.defaultOptions.headers["X-Watson-Learning-Opt-Out"] = "caller-opt"
    /\ calls[i].parameters = calls[j].parameters
    /\ calls[i].parameters.defaultOptions.headers["X-Watson-Learning-Opt-Out"] # "caller-opt"

\* call i has completed: its callback was invoked or its promise was settled
Completed(i) ==
  /\ calls[i].state = "done"
  /\ calls[i].completions = 1
  /\ calls[i].style = "promise" => calls[i].delivered.channel \in {"resolve", "reject"}
  /\ calls[i].style # "promise" => calls[i].delivered.channel = "callback"

\* createRequest was called at most once for call i, not at all when the call
\* completed without a report of the transport, and call i completed at most once
AtMostOnce(i) ==
  /\ calls[i].sent \in {0, 1}
  /\ calls[i].completions \in {0, 1}
  /\ calls[i].state = "idle" => calls[i].sent = 0 /\ calls[i].completions = 0
  /\ calls[i].state = "inflight" => calls[i].sent = 1 /\ calls[i].completions = 0
  /\ calls[i].state = "done" => Completed(i)
  /\ (calls[i].state = "done" /\ calls[i].reported = NoOutcome) =>
       calls[i].sent = 0 /\ calls[i].parameters = NoParameters
  /\ (calls[i].state = "done" /\ calls[i].reported # NoOutcome) => calls[i].sent = 1

\* C14: every invocation calls createRequest at most once, and not at all
\* when validation fails; a completed invocation is never sent or completed
\* again, whether it ended in a validation error, a transport error or a
\* response; and with a transport that completes every request, every
\* invocation handed to it completes: its callback is invoked once, or its
\* promise is settled once.
C14_OneRequestOneCompletion ==
  /\ [](\A i \in CallIds : AtMostOnce(i))
  /\ [][\A i \in CallIds : calls[i].state = "done" => calls'[i] = calls[i]]_vars
  /\ \A i \in CallIds : (calls[i].state = "inflight") ~> Completed(i)

\* one promise rejected by a transport error and one callback invoked with a
\* validation error: each completed once, the first after one request, the
\* second after none
C14_Witness ==
  \E i, j \in CallIds :
    /\ Completed(i) /\ calls[i].style = "promise"
    /\ calls[i].reported.err \in TransportErrors
    /\ calls[i].delivered.channel = "reject"
    /\ calls[i].sent = 1
    /\ Completed(j) /\ calls[j].style = "callback"
    /\ calls[j].reported = NoOutcome
    /\ calls[j].sent = 0

\* C15, for a base constructor that copies options.version into the merged
\* options and takes a version from nowhere else: when the constructor has
\* returned, the version query parameter is defined, is the version whose
\* presence was checked (this._options.version) and is the version of the
\* constructor's argument.
C15_StoredVersionIsCheckedVersion ==
  client = "ready" =>
    /\ _options.qs["version"] # Undef
    /\ _options.qs["version"] = _options.version
    /\ _options.qs["version"] = ctorOptions.version

\* a client constructed with a version and default headers
C15_Witness ==
  /\ client = "ready"
  /\ ctorOptions.version = "2019-04-02"
  /\ ctorOptions.headers = DefaultHeaders
  /\ _options.version = "2019-04-02"
  /\ _options.qs["version"] = "2019-04-02"

====
